---- MODULE Spec2Model ----
(***************************************************************************)
(* commit_push.py: the changeset-to-commit-message pipeline.               *)
(*                                                                         *)
(* A Python str is modelled as a sequence of one-character strings, so     *)
(* that startswith, endswith, slicing, lower(), strip(), split() and the   *)
(* substring test are computed character by character as Python does.     *)
(* Python's None is the sequence None below, which no str equals.          *)
(***************************************************************************)
EXTENDS Integers, Sequences, FiniteSets, TLC

VARIABLES
    pc,                         \* position in main(), or in a direct call of a method
    args,                       \* argparse namespace: dry_run, install_hooks, no_ai, message
    use_conventional_commits,   \* config.use_conventional_commits
    is_repo,                    \* Path(".git").exists()
    status,                     \* ChangeSet: the dict built by get_repo_status
    stats,                      \* LineDelta: the dict built by get_file_changes
    commit_message,             \* main's commit_message / the candidate under test
    llm,                        \* what the language-model collaborator did in this run
    cmds,                       \* the commands handed to run_command, in order, with outcome;
                                \* in a direct call of a collector, the processes its queries meet
    printed,                    \* the report lines main has printed
    ret                         \* values returned so far by the methods called

vars == <<pc, args, use_conventional_commits, is_repo, status, stats,
          commit_message, llm, cmds, printed, ret>>

-----------------------------------------------------------------------------
(* Bounds of the model *)

\* a ChangeSet lists at most MaxTouched paths over its five sets
MaxTouched == 2
\* LineDelta.files ranges over 0..MaxFiles
MaxFiles == 3
\* the status queries of one run of main list at most MaxListed paths in all
MaxListed == 1
\* a numstat output has at most MaxLines lines
MaxLines == 2
\* long candidates have max_commit_length - MaxOver .. max_commit_length + MaxOver characters
MaxOver == 3

-----------------------------------------------------------------------------
(* Program constants *)

max_commit_length == 72

None == <<"None">>

conventional_types ==
    { <<"f","e","a","t">> (* feat *), <<"f","i","x">> (* fix *), <<"d","o","c","s">> (* docs *), <<"s","t","y","l","e">> (* style *), <<"r","e","f","a","c","t","o","r">> (* refactor *), <<"p","e","r","f">> (* perf *), <<"t","e","s","t">> (* test *),
      <<"b","u","i","l","d">> (* build *), <<"c","i">>, <<"c","h","o","r","e">> (* chore *), <<"s","e","c","u","r","i","t","y">> (* security *), <<"c","o","n","f","i","g">> (* config *) }

StatusKeys == <<"untracked", "modified", "staged", "deleted", "renamed">>

-----------------------------------------------------------------------------
(* Python str operations *)

UpperCase == <<"A","B","C","D","E","F","G","H","I","J","K","L","M","N","O","P","Q","R","S","T","U","V","W","X","Y","Z">> (* ABCDEFGHIJKLMNOPQRSTUVWXYZ *)
LowerCase == <<"a","b","c","d","e","f","g","h","i","j","k","l","m","n","o","p","q","r","s","t","u","v","w","x","y","z">> (* abcdefghijklmnopqrstuvwxyz *)
Digits == <<"0","1","2","3","4","5","6","7","8","9">> (* 0123456789 *)
Whitespace == {" ", "\n", "\t"}

LowerChar(c) ==
    IF \E i \in 1..Len(UpperCase) : UpperCase[i] = c
    THEN LowerCase[CHOOSE i \in 1..Len(UpperCase) : UpperCase[i] = c]
    ELSE c

\* s.lower()
ToLower(s) == [i \in 1..Len(s) |-> LowerChar(s[i])]

\* s.startswith(p)
StartsWith(s, p) == Len(s) >= Len(p) /\ SubSeq(s, 1, Len(p)) = p

\* s.endswith(p)
EndsWith(s, p) == Len(s) >= Len(p) /\ SubSeq(s, Len(s) - Len(p) + 1, Len(s)) = p

\* p in s
Contains(s, p) == \E i \in 0..(Len(s) - Len(p)) : SubSeq(s, i + 1, i + Len(p)) = p

\* s.strip()
Strip(s) ==
    IF \A i \in 1..Len(s) : s[i] \in Whitespace
    THEN <<>>
    ELSE LET first == CHOOSE i \in 1..Len(s) :
                          s[i] \notin Whitespace /\ \A j \in 1..(i - 1) : s[j] \in Whitespace
             last == CHOOSE i \in 1..Len(s) :
                          s[i] \notin Whitespace /\ \A j \in (i + 1)..Len(s) : s[j] \in Whitespace
         IN SubSeq(s, first, last)

\* s.split(sep) for a one-character sep
RECURSIVE Split(_, _)
Split(s, sep) ==
    IF \A i \in 1..Len(s) : s[i] # sep
    THEN <<s>>
    ELSE LET i == CHOOSE k \in 1..Len(s) : s[k] = sep /\ \A j \in 1..(k - 1) : s[j] # sep
         IN <<SubSeq(s, 1, i - 1)>> \o Split(SubSeq(s, i + 1, Len(s)), sep)

\* sep.join(parts)
RECURSIVE Join(_, _)
Join(parts, sep) ==
    IF Len(parts) = 0 THEN <<>>
    ELSE IF Len(parts) = 1 THEN parts[1]
    ELSE parts[1] \o sep \o Join(Tail(parts), sep)

\* str(n) for n >= 0, as the f-string formats stats['files']
RECURSIVE ToStr(_)
ToStr(n) ==
    IF n < 10 THEN <<Digits[n + 1]>>
    ELSE ToStr(n \div 10) \o <<Digits[(n % 10) + 1]>>

\* PathStem, had it dropped the suffix of the whole path instead of the last component's
PathStemKeepsDirectory(p) ==
    LET dots == {i \in 1..Len(p) : p[i] = "."}
        i == CHOOSE k \in dots : \A j \in dots : j <= k
    IN IF dots # {} /\ 1 < i /\ i < Len(p) THEN SubSeq(p, 1, i - 1) ELSE p

\* Path(p).stem: the last component of p that is neither empty nor ".",
\* without its last suffix (a leading dot is no suffix; nor is a trailing one
\* before Python 3.14, and no path of the model ends in a dot)
PathStem(p) ==
    LET comps == SelectSeq(Split(p, "/"), LAMBDA c : c # <<>> /\ c # <<".">>)
        name == IF Len(comps) = 0 THEN <<>> ELSE comps[Len(comps)]
        dots == {i \in 1..Len(name) : name[i] = "."}
        i == CHOOSE k \in dots : \A j \in dots : j <= k
    IN IF dots # {} /\ 1 < i /\ i < Len(name) THEN SubSeq(name, 1, i - 1) ELSE name

\* not x, for x an Optional[str]
Falsy(x) == x = None \/ x = <<>>

-----------------------------------------------------------------------------
(* CommitMessageGenerator *)

\* [f for files in status.values() for f in files], in the dict's insertion order
AllFiles(st) ==
    st.untracked \o st.modified \o st.staged \o st.deleted \o st.renamed

\* the f of: any(... for files in status.values() for f in files)
Files(st) == {AllFiles(st)[i] : i \in 1..Len(AllFiles(st))}

EndsWithAny(f, suffixes) == \E x \in suffixes : EndsWith(f, x)

\* analyze_changes, had the scan been a priority ranking that stops at the first
\* label that matches
AnalyzeFirstLabelOnly(st, sts) ==
    IF (\E f \in Files(st) : Contains(ToLower(f), <<"t","e","s","t">> (* test *))) THEN <<"t","e","s","t"," ","f","i","l","e","s">> (* test files *)
    ELSE IF (\E f \in Files(st) : EndsWithAny(f, {<<".","m","d">> (* .md *), <<".","r","s","t">> (* .rst *), <<".","t","x","t">> (* .txt *)}))
    THEN <<"d","o","c","u","m","e","n","t","a","t","i","o","n">> (* documentation *)
    ELSE IF (\E f \in Files(st) : EndsWithAny(f, {<<".","j","s","o","n">> (* .json *), <<".","y","m","l">> (* .yml *), <<".","y","a","m","l">> (* .yaml *), <<".","t","o","m","l">> (* .toml *), <<".","i","n","i">> (* .ini *)}))
    THEN <<"c","o","n","f","i","g","u","r","a","t","i","o","n">> (* configuration *)
    ELSE IF (\E f \in Files(st) : EndsWithAny(f, {<<".","p","y">> (* .py *), <<".","j","s">> (* .js *), <<".","t","s">> (* .ts *), <<".","j","a","v","a">> (* .java *), <<".","c","p","p">> (* .cpp *)}))
    THEN <<"s","o","u","r","c","e"," ","c","o","d","e">> (* source code *)
    ELSE <<"g","e","n","e","r","a","l"," ","c","h","a","n","g","e","s">> (* general changes *)

analyze_changes(st, sts) ==
    LET analysis ==
            (IF (\E f \in Files(st) : Contains(ToLower(f), <<"t","e","s","t">> (* test *)))
             THEN <<<<"t","e","s","t"," ","f","i","l","e","s">> (* test files *)>> ELSE <<>>)
         \o (IF (\E f \in Files(st) : EndsWithAny(f, {<<".","m","d">> (* .md *), <<".","r","s","t">> (* .rst *), <<".","t","x","t">> (* .txt *)}))
             THEN <<<<"d","o","c","u","m","e","n","t","a","t","i","o","n">> (* documentation *)>> ELSE <<>>)
         \o (IF (\E f \in Files(st) : EndsWithAny(f, {<<".","j","s","o","n">> (* .json *), <<".","y","m","l">> (* .yml *), <<".","y","a","m","l">> (* .yaml *), <<".","t","o","m","l">> (* .toml *), <<".","i","n","i">> (* .ini *)}))
             THEN <<<<"c","o","n","f","i","g","u","r","a","t","i","o","n">> (* configuration *)>> ELSE <<>>)
         \o (IF (\E f \in Files(st) : EndsWithAny(f, {<<".","p","y">> (* .py *), <<".","j","s">> (* .js *), <<".","t","s">> (* .ts *), <<".","j","a","v","a">> (* .java *), <<".","c","p","p">> (* .cpp *)}))
             THEN <<<<"s","o","u","r","c","e"," ","c","o","d","e">> (* source code *)>> ELSE <<>>)
    IN IF Len(analysis) > 0 THEN Join(analysis, <<","," ">>) ELSE <<"g","e","n","e","r","a","l"," ","c","h","a","n","g","e","s">> (* general changes *)

\* EnsureLength, had it cut at max - 2 (an off-by-one in the room left for the ellipsis)
EnsureLengthOffByOne(message) ==
    IF Len(message) > max_commit_length
    THEN SubSeq(message, 1, max_commit_length - 2) \o <<".",".",".">> (* ... *)
    ELSE message

\* EnsureLength, had it cut at max and then appended the ellipsis
EnsureLengthNoRoom(message) ==
    IF Len(message) > max_commit_length
    THEN SubSeq(message, 1, max_commit_length) \o <<".",".",".">> (* ... *)
    ELSE message

\* the truncation of _clean_message: "Ensure proper length"
EnsureLength(message) ==
    IF Len(message) > max_commit_length
    THEN SubSeq(message, 1, max_commit_length - 3) \o <<".",".",".">> (* ... *)
    ELSE message

\* the quote removal of _clean_message: message[1:-1]
RemoveQuotes(message) ==
    IF StartsWith(message, <<"\"">>) /\ EndsWith(message, <<"\"">>)
    THEN SubSeq(message, 2, Len(message) - 1)
    ELSE message

prefixes == <<<<"c","o","m","m","i","t"," ","m","e","s","s","a","g","e",":">> (* commit message: *), <<"m","e","s","s","a","g","e",":">> (* message: *), <<"g","i","t"," ","c","o","m","m","i","t",":">> (* git commit: *)>>

\* the loop of _clean_message over prefixes[k..]
RECURSIVE RemovePrefixes(_, _)
RemovePrefixes(message, k) ==
    IF k > Len(prefixes) THEN message
    ELSE IF StartsWith(ToLower(message), prefixes[k])
         THEN RemovePrefixes(Strip(SubSeq(message, Len(prefixes[k]) + 1, Len(message))), k + 1)
         ELSE RemovePrefixes(message, k + 1)

_clean_message(message) ==
    EnsureLength(RemovePrefixes(RemoveQuotes(message), 1))

\* _validate_message, had it tested only for the empty message
ValidateWithoutMinimum(message, conventional) ==
    IF Len(message) = 0 THEN FALSE
    ELSE IF conventional
         THEN Contains(message, <<":">>)
              /\ \E msg_type \in conventional_types : Contains(ToLower(message), msg_type)
         ELSE TRUE

_validate_message(message, conventional) ==
    IF Len(message) = 0 \/ Len(message) < 10 THEN FALSE
    ELSE IF conventional
         THEN Contains(message, <<":">>)
              /\ \E msg_type \in conventional_types : Contains(ToLower(message), msg_type)
         ELSE TRUE

\* FallbackType, had the .md rule been left out
FallbackTypeWithoutDocs(st) ==
    IF (\E f \in Files(st) : Contains(ToLower(f), <<"f","i","x">> (* fix *))) THEN <<"f","i","x">> (* fix *)
    ELSE IF (\E f \in Files(st) : Contains(ToLower(f), <<"t","e","s","t">> (* test *))) THEN <<"t","e","s","t">> (* test *)
    ELSE <<"f","e","a","t">> (* feat *)

\* FallbackType, had the .md rule been tested before the fix rule
FallbackTypeDocsFirst(st) ==
    IF (\E f \in Files(st) : EndsWith(f, <<".","m","d">> (* .md *))) THEN <<"d","o","c","s">> (* docs *)
    ELSE IF (\E f \in Files(st) : Contains(ToLower(f), <<"f","i","x">> (* fix *))) THEN <<"f","i","x">> (* fix *)
    ELSE IF (\E f \in Files(st) : Contains(ToLower(f), <<"t","e","s","t">> (* test *))) THEN <<"t","e","s","t">> (* test *)
    ELSE <<"f","e","a","t">> (* feat *)

\* FallbackType, had the test rule been tested before the .md rule
FallbackTypeTestBeforeDocs(st) ==
    IF (\E f \in Files(st) : Contains(ToLower(f), <<"f","i","x">> (* fix *))) THEN <<"f","i","x">> (* fix *)
    ELSE IF (\E f \in Files(st) : Contains(ToLower(f), <<"t","e","s","t">> (* test *))) THEN <<"t","e","s","t">> (* test *)
    ELSE IF (\E f \in Files(st) : EndsWith(f, <<".","m","d">> (* .md *))) THEN <<"d","o","c","s">> (* docs *)
    ELSE <<"f","e","a","t">> (* feat *)

\* the commit type of generate_fallback_message
FallbackType(st) ==
    IF (\E f \in Files(st) : Contains(ToLower(f), <<"f","i","x">> (* fix *))) THEN <<"f","i","x">> (* fix *)
    ELSE IF (\E f \in Files(st) : EndsWith(f, <<".","m","d">> (* .md *))) THEN <<"d","o","c","s">> (* docs *)
    ELSE IF (\E f \in Files(st) : Contains(ToLower(f), <<"t","e","s","t">> (* test *))) THEN <<"t","e","s","t">> (* test *)
    ELSE <<"f","e","a","t">> (* feat *)

\* FallbackScope, had it counted the paths of the ChangeSet instead of reading
\* stats['files']
FallbackScopeCountingPaths(st, sts) ==
    LET all_files == SelectSeq(AllFiles(st), LAMBDA f : f # <<>>)
    IN IF Len(all_files) = 1
       THEN <<"(">> \o PathStem(all_files[1]) \o <<")">>
       ELSE <<>>

\* the scope of generate_fallback_message
FallbackScope(st, sts) ==
    LET all_files == SelectSeq(AllFiles(st), LAMBDA f : f # <<>>)
    IN IF sts.files = 1 /\ Len(all_files) > 0
       THEN <<"(">> \o PathStem(all_files[1]) \o <<")">>
       ELSE <<>>

\* FallbackAction, had a staged or deleted file counted as an update
FallbackActionAnyTracked(st) ==
    IF Len(st.modified) + Len(st.staged) + Len(st.deleted) > 0 THEN <<"u","p","d","a","t","e">> (* update *) ELSE <<"a","d","d">> (* add *)

\* the action of generate_fallback_message
FallbackAction(st) == IF Len(st.modified) > 0 THEN <<"u","p","d","a","t","e">> (* update *) ELSE <<"a","d","d">> (* add *)

\* generate_fallback_message, had it counted the files of the ChangeSet for its
\* first test instead of reading stats['files']
FallbackCountingChangeSet(st, sts) ==
    IF Len(AllFiles(st)) = 0 THEN <<"c","h","o","r","e",":"," ","u","p","d","a","t","e"," ","r","e","p","o","s","i","t","o","r","y">> (* chore: update repository *)
    ELSE FallbackType(st) \o FallbackScope(st, sts) \o <<":"," ">> \o FallbackAction(st)
         \o <<" ">> \o ToStr(sts.files) \o <<" ","f","i","l","e">> (*  file *) \o (IF sts.files > 1 THEN <<"s">> ELSE <<>>)

generate_fallback_message(st, sts) ==
    IF sts.files = 0 THEN <<"c","h","o","r","e",":"," ","u","p","d","a","t","e"," ","r","e","p","o","s","i","t","o","r","y">> (* chore: update repository *)
    ELSE FallbackType(st) \o FallbackScope(st, sts) \o <<":"," ">> \o FallbackAction(st)
         \o <<" ">> \o ToStr(sts.files) \o <<" ","f","i","l","e">> (*  file *) \o (IF sts.files > 1 THEN <<"s">> ELSE <<>>)


\* EnhancedResult, had it returned the cleaned message without asking the validator
EnhancedResultUnvalidated(raw, conventional) ==
    _clean_message(Strip(raw))

\* the tail of generate_enhanced_message once the collaborator has returned raw:
\* strip, clean, validate, and return the message or None
EnhancedResult(raw, conventional) ==
    LET message == _clean_message(Strip(raw))
    IN IF _validate_message(message, conventional) THEN message ELSE None

-----------------------------------------------------------------------------
(* GitOperations: the collectors, over what run_command returned            *)
(* (None on failure, else the command's stripped standard output)           *)

\* run_command with capture_output=True on a finished process, result being its
\* returncode, its standard output and whether that output decodes as UTF-8
run_command(result, check) ==
    IF ~result.decodable THEN None
    ELSE IF check /\ result.returncode # 0 THEN None
    ELSE Strip(result.stdout)

\* one slot of get_repo_status: if out: status[slot] = out.split('\n')
SlotOf(out) == IF Falsy(out) THEN <<>> ELSE Split(out, "\n")

\* get_repo_status, had the first failed query ended the collection
GetRepoStatusAborting(q) ==
    IF \E k \in DOMAIN q : q[k] = None
    THEN [untracked |-> <<>>, modified |-> <<>>, staged |-> <<>>, deleted |-> <<>>,
          renamed |-> <<>>]
    ELSE [untracked |-> SlotOf(q.untracked),
          modified  |-> SlotOf(q.modified),
          staged    |-> SlotOf(q.staged),
          deleted   |-> SlotOf(q.deleted),
          renamed   |-> <<>>]

get_repo_status(q) ==
    [untracked |-> SlotOf(q.untracked),
     modified  |-> SlotOf(q.modified),
     staged    |-> SlotOf(q.staged),
     deleted   |-> SlotOf(q.deleted),
     renamed   |-> <<>>]

IsDigits(s) == Len(s) > 0 /\ \A i \in 1..Len(s) : \E d \in 1..10 : Digits[d] = s[i]

RECURSIVE DigitsVal(_)
DigitsVal(s) ==
    IF Len(s) = 0 THEN 0
    ELSE 10 * DigitsVal(SubSeq(s, 1, Len(s) - 1))
         + ((CHOOSE d \in 1..10 : Digits[d] = s[Len(s)]) - 1)

\* whether int(s) returns (surrounding whitespace and one sign are accepted;
\* the underscores int also accepts between digits are not modelled)
IntOk(s) ==
    LET x == Strip(s)
    IN IsDigits(x) \/ (Len(x) > 1 /\ x[1] \in {"+", "-"} /\ IsDigits(Tail(x)))

\* int(s) when IntOk(s)
IntVal(s) ==
    LET x == Strip(s)
    IN IF x[1] = "-" THEN 0 - DigitsVal(Tail(x))
       ELSE IF x[1] = "+" THEN DigitsVal(Tail(x))
       ELSE DigitsVal(x)

\* int(p) if p != '-' else 0, when it does not raise
FieldVal(p) == IF p = <<"-">> THEN 0 ELSE IntVal(p)

\* whether int(p) if p != '-' else 0 raises ValueError
FieldRaises(p) == p # <<"-">> /\ ~IntOk(p)

\* the body of get_file_changes' loop for one numstat line
CountLine(changes, line) ==
    LET parts == Split(line, "\t")
    IN IF Len(parts) < 2 THEN changes
       ELSE IF FieldRaises(parts[1]) THEN changes
       ELSE LET added == [changes EXCEPT !.additions = @ + FieldVal(parts[1])]
            IN IF FieldRaises(parts[2]) THEN added
               ELSE [added EXCEPT !.deletions = @ + FieldVal(parts[2]),
                                  !.files = @ + 1]

RECURSIVE CountLines(_, _)
CountLines(changes, lines) ==
    IF Len(lines) = 0 THEN changes
    ELSE CountLines(CountLine(changes, lines[1]), Tail(lines))

ZeroStats == [additions |-> 0, deletions |-> 0, files |-> 0]

\* unstaged, cached: what git diff --numstat and git diff --cached --numstat return
get_file_changes(unstaged, cached) ==
    LET text == IF Falsy(unstaged) THEN cached ELSE unstaged
    IN IF Falsy(text) THEN ZeroStats ELSE CountLines(ZeroStats, Split(text, "\n"))

-----------------------------------------------------------------------------
(* The inputs the model draws from *)

\* the subsets of S with at most n elements
RECURSIVE SubsetsUpTo(_, _)
SubsetsUpTo(S, n) ==
    IF n = 0 THEN {{}}
    ELSE LET smaller == SubsetsUpTo(S, n - 1)
         IN smaller \cup {T \cup {x} : T \in smaller, x \in S}

\* the paths pool[i], i in I, in the order of the pool (git lists paths sorted)
RECURSIVE ListOf(_, _)
ListOf(pool, I) ==
    IF I = {} THEN <<>>
    ELSE LET m == CHOOSE i \in I : \A j \in I : i <= j
         IN <<pool[m]>> \o ListOf(pool, I \ {m})

PathPool ==
    << <<"L","I","C","E","N","S","E">> (* LICENSE *), <<"d","o","c","s","/","H","O","T","F","I","X",".","m","d">> (* docs/HOTFIX.md *), <<"c","o","n","f","i","g",".","y","m","l">> (* config.yml *), <<"r","e","a","d","m","e",".","m","d">> (* readme.md *), <<"s","r","c","/","a","p","p",".","p","y">> (* src/app.py *),
       <<"s","r","c","/","b","u","g","f","i","x",".","p","y">> (* src/bugfix.py *), <<"t","e","s","t","s","/","t","e","s","t","_","a","p","i",".","j","s">> (* tests/test_api.js *) >>

\* the paths the working tree of the pipeline's runs may list
GitPaths == << <<"r","e","a","d","m","e",".","m","d">> (* readme.md *), <<"s","r","c","/","a","p","p",".","p","y">> (* src/app.py *), <<"s","r","c","/","b","u","g","f","i","x",".","p","y">> (* src/bugfix.py *) >>

\* a ChangeSet whose slot k lists the paths pool[i] with <<k, i>> in T
ChangeSetOf(pool, T) ==
    [k \in {StatusKeys[n] : n \in 1..Len(StatusKeys)} |->
        ListOf(pool, {i \in 1..Len(pool) : <<k, i>> \in T})]

ChangeSets ==
    { ChangeSetOf(PathPool, T) :
        T \in SubsetsUpTo({StatusKeys[n] : n \in 1..5} \X (1..Len(PathPool)), MaxTouched) }

LineDeltas ==
    { [additions |-> c[1], deletions |-> c[2], files |-> f] :
        c \in {<<0, 0>>, <<5, 2>>}, f \in 0..MaxFiles }

EmptyStatus == ChangeSetOf(PathPool, {})

Filler(n) == <<"f","e","a","t",":"," ">> (* feat:  *) \o [i \in 1..(n - 6) |-> "x"]

BaseCandidates ==
    { <<"f","e","a","t","(","a","u","t","h",")",":"," ","a","d","d"," ","u","s","e","r"," ","r","e","g","i","s","t","r","a","t","i","o","n"," ","e","n","d","p","o","i","n","t">> (* feat(auth): add user registration endpoint *),
      <<"f","i","x",":"," ","a">> (* fix: a *),
      <<>>,
      <<"U","p","d","a","t","e","d"," ","t","h","e"," ","d","o","c","s",":"," ","d","o","n","e">> (* Updated the docs: done *),
      <<"u","p","d","a","t","e"," ","r","e","a","d","m","e"," ","f","i","l","e">> (* update readme file *),
      <<"p","r","e","f","i","x"," ","h","a","n","d","l","i","n","g",":"," ","t","i","d","y">> (* prefix handling: tidy *) }
    \cup { Filler(n) : n \in (max_commit_length - MaxOver)..(max_commit_length + MaxOver) }

Quoted(x) == <<"\"">> \o x \o <<"\"">>

\* what a language model wraps around its answer
Wrappings(x) ==
    { x,
      Quoted(x),
      Quoted(Quoted(x)),
      <<"C","o","m","m","i","t"," ","m","e","s","s","a","g","e",":"," ">> (* Commit message:  *) \o x,
      <<"m","e","s","s","a","g","e",":"," ">> (* message:  *) \o x,
      <<"G","i","t"," ","C","o","m","m","i","t",":"," ">> (* Git Commit:  *) \o x,
      <<"m","e","s","s","a","g","e",":"," ","c","o","m","m","i","t"," ","m","e","s","s","a","g","e",":"," ">> (* message: commit message:  *) \o x,
      <<"m","e","s","s","a","g","e",":"," ">> (* message:  *) \o Quoted(x),
      Quoted(<<"m","e","s","s","a","g","e",":"," ">> (* message:  *) \o x) }

RawCandidates == UNION { Wrappings(b) : b \in BaseCandidates }

\* what llm.invoke returns in the pipeline's runs
LLMOutputs ==
    { <<" "," ","f","e","a","t","(","a","u","t","h",")",":"," ","a","d","d"," ","u","s","e","r"," ","r","e","g","i","s","t","r","a","t","i","o","n"," ","e","n","d","p","o","i","n","t","\n">>,
      <<"\"","C","o","m","m","i","t"," ","m","e","s","s","a","g","e",":"," ","f","i","x",":"," ","a","\"">>,
      <<"U","p","d","a","t","e","d"," ","t","h","e"," ","d","o","c","s",":"," ","d","o","n","e">> (* Updated the docs: done *),
      <<"I"," ","c","a","n","n","o","t"," ","h","e","l","p"," ","w","i","t","h"," ","t","h","a","t">> (* I cannot help with that *),
      <<>>,
      Filler(max_commit_length + MaxOver) }

CustomMessages == { None, <<"f","i","x"," ","t","y","p","o"," ","i","n"," ","d","o","c","s">> (* fix typo in docs *), Filler(max_commit_length + MaxOver) }

\* run_command's results for the four status queries: each fails (None) or
\* lists paths, one per line
StatusOutcomes ==
    { [k \in {"untracked", "modified", "staged", "deleted"} |->
          IF k \in failed THEN None ELSE Join(ChangeSetOf(GitPaths, T)[k], <<"\n">>)] :
        T \in SubsetsUpTo({StatusKeys[n] : n \in 1..4} \X (1..Len(GitPaths)), MaxListed),
        failed \in {{}, {"untracked"}, {"modified"}, {"staged"}, {"deleted"},
                    {"untracked", "modified", "staged", "deleted"}} }

NumstatLines ==
    << <<"-","\t","-","\t","l","o","g","o",".","p","n","g">>, <<"3","\t","x","\t","n","o","t","e","s",".","t","x","t">>, <<"5","\t","2","\t","s","r","c","/","a","p","p",".","p","y">>, <<"w","a","r","n","i","n","g">> (* warning *) >>

NumstatTexts ==
    { Join(ListOf(NumstatLines, I), <<"\n">>) :
        I \in SubsetsUpTo(1..Len(NumstatLines), MaxLines) }

\* run_command's results for git diff --numstat and git diff --cached --numstat;
\* the second is asked only when the first is None or empty
NumstatOutcomes ==
    { [unstaged |-> u, cached |-> None] : u \in NumstatTexts \ {<<>>} }
    \cup { [unstaged |-> u, cached |-> c] :
             u \in {None, <<>>}, c \in {None, <<>>, NumstatLines[1], NumstatLines[3]} }

StatusQueries ==
    << "git ls-files --others", "git diff --name-only",
       "git diff --cached --name-only", "git ls-files --deleted" >>

\* a finished process that printed the paths of lines, one per line
Finished(lines, returncode, decodable) ==
    [returncode |-> returncode, stdout |-> Join(lines, <<"\n">>), decodable |-> decodable]

\* what the four status queries of a direct call of get_repo_status meet: slot k
\* lists the paths of T, and the queries of failed end with a non-zero exit
\* status (128) or with output that does not decode
StatusScripts ==
    { [n \in 1..4 |->
          [cmd |-> StatusQueries[n],
           result |-> Finished(ChangeSetOf(GitPaths, T)[StatusKeys[n]],
                               IF StatusKeys[n] \in failed /\ how = "exit" THEN 128 ELSE 0,
                               ~(StatusKeys[n] \in failed /\ how = "decode"))]] :
        T \in SubsetsUpTo({StatusKeys[n] : n \in 1..4} \X (1..Len(GitPaths)), MaxTouched),
        failed \in SUBSET {StatusKeys[n] : n \in 1..4},
        how \in {"exit", "decode"} }

NumstatLinePool ==
    << <<"-","\t","-","\t","l","o","g","o",".","p","n","g">>, <<"1","2","\t","0","\t","r","e","a","d","m","e",".","m","d">>, <<"3","\t","x","\t","n","o","t","e","s",".","t","x","t">>,
       <<"5","\t","2","\t","s","r","c","/","a","p","p",".","p","y">>, <<"w","a","r","n","i","n","g">> (* warning *), <<"x","\t","4","\t","z","e","b","r","a",".","t","x","t">> >>

NumstatResults ==
    { Finished(ListOf(NumstatLinePool, I), code, TRUE) :
        I \in SubsetsUpTo(1..Len(NumstatLinePool), MaxLines), code \in {0, 128} }

\* what the two numstat queries of a direct call of get_file_changes meet
NumstatScripts ==
    { << [cmd |-> "git diff --numstat", result |-> u],
         [cmd |-> "git diff --cached --numstat", result |-> c] >> :
        u \in NumstatResults, c \in NumstatResults }

-----------------------------------------------------------------------------
(* main(): one run of the pipeline, one action per step between two          *)
(* interactions with git or with the collaborator. A KeyboardInterrupt, which  *)
(* ends the run with status 1 at any step, is left out.                        *)

Init ==
    /\ pc = "start"
    /\ args \in [dry_run : BOOLEAN, install_hooks : BOOLEAN, no_ai : BOOLEAN,
                 message : CustomMessages]
    /\ use_conventional_commits = TRUE
    /\ is_repo \in BOOLEAN
    /\ status = EmptyStatus
    /\ stats = ZeroStats
    /\ commit_message = None
    /\ llm = "not called"
    /\ cmds = <<>>
    /\ printed = <<>>
    /\ ret = <<>>

\* --install-hooks: PreCommitHooks.install_hooks(), then return; without .git the
\* mkdir raises and main's except Exception exits with status 1
InstallHooks ==
    /\ pc = "start"
    /\ args.install_hooks
    /\ IF is_repo
       THEN pc' = "done" /\ printed' = Append(printed, "Pre-commit hooks installed")
       ELSE pc' = "exit 1" /\ printed' = Append(printed, "Unexpected error")
    /\ UNCHANGED <<args, use_conventional_commits, is_repo, status, stats,
                   commit_message, llm, cmds, ret>>

\* InitRepo, had git init been issued in a dry run too
InitRepoInDryRun ==
    /\ pc = "start"
    /\ ~args.install_hooks
    /\ IF is_repo
       THEN UNCHANGED <<is_repo, cmds, printed>>
       ELSE \E ok \in BOOLEAN :
               /\ cmds' = Append(cmds, [cmd |-> "git init"])
               /\ is_repo' = ok
               /\ printed' = Append(printed, "Git repository initialized")
    /\ pc' = "collect"
    /\ UNCHANGED <<args, use_conventional_commits, status, stats, commit_message, llm, ret>>

\* "Initialize Git repo if needed"
InitRepo ==
    /\ pc = "start"
    /\ ~args.install_hooks
    /\ IF is_repo
       THEN UNCHANGED <<is_repo, cmds, printed>>
       ELSE IF args.dry_run
            THEN /\ printed' = Append(printed, "DRY RUN: Would initialize Git repository")
                 /\ UNCHANGED <<is_repo, cmds>>
            ELSE \E ok \in BOOLEAN :
                    /\ cmds' = Append(cmds, [cmd |-> "git init"])
                    /\ is_repo' = ok
                    /\ printed' = Append(printed, "Git repository initialized")
    /\ pc' = "collect"
    /\ UNCHANGED <<args, use_conventional_commits, status, stats, commit_message, llm, ret>>

\* "Get repository status", "Check if there are changes", and the dry-run return
Collect ==
    /\ pc = "collect"
    /\ \E q \in StatusOutcomes, n \in NumstatOutcomes :
          LET st == get_repo_status(q)
              sts == get_file_changes(n.unstaged, n.cached)
              has_changes == \E k \in DOMAIN st : Len(st[k]) > 0
          IN /\ status' = st
             /\ stats' = sts
             /\ cmds' = cmds \o << [cmd |-> "git ls-files --others"],
                                   [cmd |-> "git diff --name-only"],
                                   [cmd |-> "git diff --cached --name-only"],
                                   [cmd |-> "git ls-files --deleted"],
                                   [cmd |-> "git diff --numstat"] >>
                             \o (IF Falsy(n.unstaged)
                                 THEN << [cmd |-> "git diff --cached --numstat"] >>
                                 ELSE <<>>)
             /\ IF ~has_changes
                THEN pc' = "done" /\ printed' = Append(printed, "No changes detected")
                ELSE IF args.dry_run
                     THEN pc' = "done"
                          /\ printed' = printed \o <<"Changes detected",
                                                     "DRY RUN: Would stage and commit changes">>
                     ELSE pc' = "quality" /\ printed' = Append(printed, "Changes detected")
    /\ UNCHANGED <<args, use_conventional_commits, is_repo, commit_message, llm, ret>>

\* "Run pre-commit checks": PreCommitHooks.check_code_quality()
CheckQuality ==
    /\ pc = "quality"
    /\ cmds' = Append(cmds, [cmd |-> "git diff --cached --name-only --diff-filter=ACM"])
    /\ \E passed \in BOOLEAN :
          IF passed
          THEN pc' = "stage" /\ UNCHANGED printed
          ELSE pc' = "done" /\ printed' = Append(printed, "Code quality checks failed")
    /\ UNCHANGED <<args, use_conventional_commits, is_repo, status, stats,
                   commit_message, llm, ret>>

\* "Stage changes"
Stage ==
    /\ pc = "stage"
    /\ cmds' = Append(cmds, [cmd |-> "git add ."])
    /\ printed' = Append(printed, "Changes staged")
    /\ pc' = "generate"
    /\ UNCHANGED <<args, use_conventional_commits, is_repo, status, stats,
                   commit_message, llm, ret>>

\* "Generate commit message": args.message, else generate_enhanced_message, whose
\* collaborator is missing (ImportError), raises, or returns raw
GenerateMessage ==
    /\ pc = "generate"
    /\ IF ~Falsy(args.message) \/ args.no_ai
       THEN /\ commit_message' = args.message
            /\ UNCHANGED <<llm, cmds, printed>>
       ELSE /\ cmds' = Append(cmds, [cmd |-> "git log --oneline"])
            /\ \/ \E installed \in BOOLEAN :
                     /\ llm' = "import error"
                     /\ commit_message' = None
                     /\ printed' = printed \o
                           << "Generating AI commit message",
                              IF installed THEN "langchain-ollama installed successfully"
                                           ELSE "Failed to install langchain-ollama" >>
               \/ /\ llm' = "raised"
                  /\ commit_message' = None
                  /\ printed' = printed \o << "Generating AI commit message",
                                              "AI generation failed" >>
               \/ \E raw \in LLMOutputs :
                     /\ llm' = IF _validate_message(_clean_message(Strip(raw)),
                                                    use_conventional_commits)
                               THEN "accepted" ELSE "rejected"
                     /\ commit_message' = EnhancedResult(raw, use_conventional_commits)
                     /\ printed' = Append(printed, "Generating AI commit message")
    /\ pc' = "select"
    /\ UNCHANGED <<args, use_conventional_commits, is_repo, status, stats, ret>>

\* SelectMessage, had the fallback been tied to the generative attempt
\* (if not commit_message and not args.no_ai)
SelectMessageOnlyAfterAI ==
    /\ pc = "select"
    /\ IF Falsy(commit_message) /\ ~args.no_ai
       THEN /\ commit_message' = generate_fallback_message(status, stats)
            /\ printed' = Append(printed, "Using fallback message")
       ELSE /\ printed' = Append(printed, "Commit message")
            /\ UNCHANGED commit_message
    /\ pc' = "commit"
    /\ UNCHANGED <<args, use_conventional_commits, is_repo, status, stats, llm, cmds, ret>>

\* SelectMessage, had main tried the generative strategy again after a successful
\* installation of the missing dependency
SelectMessageRetrying ==
    /\ pc = "select"
    /\ IF Falsy(commit_message) /\ llm = "import error"
          /\ (\E k \in DOMAIN printed : printed[k] = "langchain-ollama installed successfully")
       THEN /\ pc' = "generate"
            /\ UNCHANGED <<commit_message, printed>>
       ELSE /\ pc' = "commit"
            /\ IF Falsy(commit_message)
               THEN /\ commit_message' = generate_fallback_message(status, stats)
                    /\ printed' = Append(printed, "Using fallback message")
               ELSE /\ printed' = Append(printed, "Commit message")
                    /\ UNCHANGED commit_message
    /\ UNCHANGED <<args, use_conventional_commits, is_repo, status, stats, llm, cmds, ret>>

\* "Fallback message"
SelectMessage ==
    /\ pc = "select"
    /\ IF Falsy(commit_message)
       THEN /\ commit_message' = generate_fallback_message(status, stats)
            /\ printed' = Append(printed, "Using fallback message")
       ELSE /\ printed' = Append(printed, "Commit message")
            /\ UNCHANGED commit_message
    /\ pc' = "commit"
    /\ UNCHANGED <<args, use_conventional_commits, is_repo, status, stats, llm, cmds, ret>>

\* "Create commit"
Commit ==
    /\ pc = "commit"
    /\ \E ok \in BOOLEAN :
          cmds' = Append(cmds, [cmd |-> "git commit", message |-> commit_message, ok |-> ok])
    /\ printed' = Append(printed, "Commit created")
    /\ pc' = "remote"
    /\ UNCHANGED <<args, use_conventional_commits, is_repo, status, stats,
                   commit_message, llm, ret>>

\* "Configure branch and remote"
ConfigureRemote ==
    /\ pc = "remote"
    /\ \E existing_remote \in BOOLEAN :
          IF existing_remote
          THEN /\ cmds' = cmds \o << [cmd |-> "git branch -M"],
                                     [cmd |-> "git remote get-url origin"] >>
               /\ UNCHANGED printed
          ELSE /\ cmds' = cmds \o << [cmd |-> "git branch -M"],
                                     [cmd |-> "git remote get-url origin"],
                                     [cmd |-> "git remote add origin"] >>
               /\ printed' = Append(printed, "Remote configured")
    /\ pc' = "push"
    /\ UNCHANGED <<args, use_conventional_commits, is_repo, status, stats,
                   commit_message, llm, ret>>

\* "Push to GitHub": check=False, so run_command returns the output whatever the
\* exit status, and None only when the output cannot be decoded
Push ==
    /\ pc = "push"
    /\ \E ok \in BOOLEAN, decoded \in BOOLEAN :
          /\ cmds' = Append(cmds, [cmd |-> "git push", ok |-> ok])
          /\ printed' = Append(printed, IF decoded THEN "Successfully pushed to GitHub"
                                                   ELSE "Push failed")
    /\ pc' = "done"
    /\ UNCHANGED <<args, use_conventional_commits, is_repo, status, stats,
                   commit_message, llm, ret>>

Next ==
    \/ InstallHooks
    \/ InitRepo
    \/ Collect
    \/ CheckQuality
    \/ Stage
    \/ GenerateMessage
    \/ SelectMessage
    \/ Commit
    \/ ConfigureRemote
    \/ Push

Spec == Init /\ [][Next]_vars

\* main runs to its end: no step waits on another (section 5 of the design)
FairSpec == Spec /\ WF_vars(Next)

-----------------------------------------------------------------------------
(* The methods of CommitMessageGenerator called directly, on any ChangeSet,   *)
(* LineDelta, candidate and setting of config.use_conventional_commits        *)

UnitInit ==
    /\ pc = "call"
    /\ \/ /\ status \in ChangeSets
          /\ stats \in LineDeltas
          /\ commit_message = <<>>
          /\ use_conventional_commits = TRUE
          /\ cmds = <<>>
       \/ /\ status = EmptyStatus
          /\ stats = ZeroStats
          /\ commit_message \in RawCandidates
          /\ use_conventional_commits \in BOOLEAN
          /\ cmds = <<>>
       \/ /\ status = EmptyStatus
          /\ stats = ZeroStats
          /\ commit_message = <<>>
          /\ use_conventional_commits = TRUE
          /\ cmds \in StatusScripts \cup NumstatScripts
    /\ args = [dry_run |-> FALSE, install_hooks |-> FALSE, no_ai |-> FALSE, message |-> None]
    /\ is_repo = TRUE
    /\ llm = "not called"
    /\ printed = <<>>
    /\ ret = <<>>

Returns(fn, val) ==
    /\ ret' = Append(ret, [fn |-> fn, val |-> val])
    /\ UNCHANGED <<args, use_conventional_commits, is_repo, status, stats,
                   commit_message, llm, cmds, printed>>

CallFallback ==
    /\ pc = "call"
    /\ Returns("generate_fallback_message", generate_fallback_message(status, stats))
    /\ pc' = "returned"

CallAnalyze ==
    /\ pc = "call"
    /\ Returns("analyze_changes", analyze_changes(status, stats))
    /\ pc' = "returned"

CallClean ==
    /\ pc = "call"
    /\ Returns("_clean_message", _clean_message(commit_message))
    /\ pc' = "cleaned"

\* normalize applied to an already normalized message
CallCleanAgain ==
    /\ pc = "cleaned"
    /\ Returns("_clean_message", _clean_message(ret[1].val))
    /\ pc' = "returned"

\* generate_enhanced_message's "return message if self._validate_message(message) else None"
CallValidate ==
    /\ pc = "cleaned"
    /\ ret' = ret \o << [fn |-> "_validate_message",
                         val |-> _validate_message(ret[1].val, use_conventional_commits)],
                        [fn |-> "generate_enhanced_message",
                         val |-> IF _validate_message(ret[1].val, use_conventional_commits)
                                 THEN ret[1].val ELSE None] >>
    /\ pc' = "returned"
    /\ UNCHANGED <<args, use_conventional_commits, is_repo, status, stats,
                   commit_message, llm, cmds, printed>>

\* get_repo_status() over the processes of cmds
CallGetRepoStatus ==
    /\ pc = "call"
    /\ Len(cmds) = Len(StatusQueries)
    /\ Returns("get_repo_status",
               get_repo_status([untracked |-> run_command(cmds[1].result, TRUE),
                                modified  |-> run_command(cmds[2].result, TRUE),
                                staged    |-> run_command(cmds[3].result, TRUE),
                                deleted   |-> run_command(cmds[4].result, TRUE)]))
    /\ pc' = "returned"

\* get_file_changes() over the processes of cmds
CallGetFileChanges ==
    /\ pc = "call"
    /\ Len(cmds) = 2
    /\ Returns("get_file_changes",
               get_file_changes(run_command(cmds[1].result, TRUE),
                                run_command(cmds[2].result, TRUE)))
    /\ pc' = "returned"

UnitNext ==
    \/ CallFallback
    \/ CallAnalyze
    \/ CallClean
    \/ CallCleanAgain
    \/ CallValidate
    \/ CallGetRepoStatus
    \/ CallGetFileChanges

UnitSpec == UnitInit /\ [][UnitNext]_vars

-----------------------------------------------------------------------------
(* Properties of one run of main (Spec, FairSpec) *)

\* the generative strategy was tried and gave no usable message
GenerativeFailed == llm \in {"import error", "raised", "rejected"}

\* the git commit commands issued so far
Commits == {i \in DOMAIN cmds : cmds[i].cmd = "git commit"}

\* C1: whenever the generative strategy yields no usable message (collaborator
\* missing, collaborator raising, candidate rejected by the validator) the run
\* does not abort, and the message held at the commit step and handed to git
\* commit is generate_fallback_message of the same ChangeSet and LineDelta.
C1_FallbackOnGenerativeFailure ==
    GenerativeFailed =>
        /\ pc # "exit 1"
        /\ pc \in {"commit", "remote", "push", "done"} =>
              commit_message = generate_fallback_message(status, stats)
        /\ \A i \in Commits : cmds[i].message = generate_fallback_message(status, stats)

C1_Witness ==
    /\ llm = "rejected"
    /\ pc = "remote"
    /\ Commits # {}
    /\ \A i \in Commits : cmds[i].message = generate_fallback_message(status, stats)

\* C2: the fallback is total, so every run that has changes and has passed the
\* pre-commit check (it is at "Stage changes") reaches the commit step whatever
\* the collaborator did: each of the three steps from there can be taken and
\* leads to the next, the last one to the commit step with a message that is a
\* non-empty string; the message is still that string at every later step.
C2_ReachesCommitWithMessage ==
    /\ [](pc \in {"stage", "generate", "select"} => ENABLED Next)
    /\ [][/\ pc = "stage" => pc' = "generate"
          /\ pc = "generate" => pc' = "select"
          /\ pc = "select" => (pc' = "commit" /\ ~Falsy(commit_message'))]_vars
    /\ [](pc \in {"commit", "remote", "push"} => ~Falsy(commit_message))

C2_Witness ==
    /\ pc = "commit"
    /\ llm = "raised"
    /\ stats.files = 0
    /\ commit_message = generate_fallback_message(status, stats)
    /\ ~Falsy(commit_message)

\* C3: end to end, ChangeSet {modified: ["src/app.py"]}, LineDelta {files 1,
\* additions 5, deletions 2}, collaborator unavailable: the run falls back, the
\* category is "source code", the type feat, the scope (app), and the message at
\* the commit step is feat(app): update 1 file.
C3_Scenario ==
    /\ status = [EmptyStatus EXCEPT !.modified = <<<<"s","r","c","/","a","p","p",".","p","y">> (* src/app.py *)>>]
    /\ stats = [additions |-> 5, deletions |-> 2, files |-> 1]
    /\ llm \in {"import error", "raised"}
    /\ pc = "commit"

C3_EndToEnd ==
    C3_Scenario =>
        /\ analyze_changes(status, stats) = <<"s","o","u","r","c","e"," ","c","o","d","e">> (* source code *)
        /\ FallbackType(status) = <<"f","e","a","t">> (* feat *)
        /\ FallbackScope(status, stats) = <<"(","a","p","p",")">> (* (app) *)
        /\ commit_message = <<"f","e","a","t","(","a","p","p",")",":"," ","u","p","d","a","t","e"," ","1"," ","f","i","l","e">> (* feat(app): update 1 file *)
        /\ printed[Len(printed)] = "Using fallback message"

C3_Witness == C3_Scenario /\ llm = "import error" /\ commit_message = <<"f","e","a","t","(","a","p","p",")",":"," ","u","p","d","a","t","e"," ","1"," ","f","i","l","e">> (* feat(app): update 1 file *)

-----------------------------------------------------------------------------
(* Properties of the methods called directly (UnitSpec) *)

\* the calls of fn that have returned
Returned(fn) == {i \in DOMAIN ret : ret[i].fn = fn}

ChoreMessage == <<"c","h","o","r","e",":"," ","u","p","d","a","t","e"," ","r","e","p","o","s","i","t","o","r","y">> (* chore: update repository *)

\* C4 as stated: for every ChangeSet with no file in any of its five sets,
\* whatever the LineDelta, the fallback returns chore: update repository.
C4_EmptyChangeSetAnyDelta ==
    \A i \in Returned("generate_fallback_message") :
        Len(AllFiles(status)) = 0 => ret[i].val = ChoreMessage

\* C4 amended: for a ChangeSet with no file in any of its five sets, the fallback
\* returns chore: update repository exactly when the LineDelta reports files = 0;
\* when it reports N >= 1 files the fallback returns feat: add N file(s).
C4_EmptyChangeSetZeroDelta ==
    \A i \in Returned("generate_fallback_message") :
        Len(AllFiles(status)) = 0 =>
            /\ (ret[i].val = ChoreMessage) <=> (stats.files = 0)
            /\ stats.files >= 1 =>
                  ret[i].val = <<"f","e","a","t",":"," ","a","d","d"," ">> (* feat: add  *) \o ToStr(stats.files) \o <<" ","f","i","l","e">> (*  file *)
                               \o (IF stats.files > 1 THEN <<"s">> ELSE <<>>)

C4_Witness ==
    /\ Returned("generate_fallback_message") # {}
    /\ Len(AllFiles(status)) = 0
    /\ stats = [additions |-> 5, deletions |-> 2, files |-> 0]
    /\ ret[1].val = ChoreMessage

\* the ChangeSet lists readme.md once, outside modified, and nothing else
OnlyReadme == AllFiles(status) = <<<<"r","e","a","d","m","e",".","m","d">> (* readme.md *)>> /\ Len(status.modified) = 0

\* C5 as stated, read with a LineDelta that reports the one file: for every
\* ChangeSet whose only touched file is readme.md (modified empty) the fallback
\* returns feat(readme): add 1 file.
C5_ReadmeIsFeat ==
    \A i \in Returned("generate_fallback_message") :
        (OnlyReadme /\ stats.files = 1) => ret[i].val = <<"f","e","a","t","(","r","e","a","d","m","e",")",":"," ","a","d","d"," ","1"," ","f","i","l","e">> (* feat(readme): add 1 file *)

\* C5 amended: for every ChangeSet whose only touched file is readme.md (modified
\* empty) and a LineDelta reporting files = 1, the fallback returns scope (readme)
\* and action add with the type docs of the .md rule: docs(readme): add 1 file.
C5_ReadmeIsDocs ==
    \A i \in Returned("generate_fallback_message") :
        (OnlyReadme /\ stats.files = 1) => ret[i].val = <<"d","o","c","s","(","r","e","a","d","m","e",")",":"," ","a","d","d"," ","1"," ","f","i","l","e">> (* docs(readme): add 1 file *)

C5_Witness ==
    /\ Returned("generate_fallback_message") # {}
    /\ OnlyReadme
    /\ status.untracked = <<<<"r","e","a","d","m","e",".","m","d">> (* readme.md *)>>
    /\ stats.files = 1
    /\ ret[1].val = <<"d","o","c","s","(","r","e","a","d","m","e",")",":"," ","a","d","d"," ","1"," ","f","i","l","e">> (* docs(readme): add 1 file *)

\* some path of the ChangeSet contains fix
HasFixPath == (\E f \in Files(status) : Contains(f, <<"f","i","x">> (* fix *)))

\* the type token of a message: what precedes its first "(" or ":"
TypeOf(message) ==
    LET stops == {i \in 1..Len(message) : message[i] \in {"(", ":"}}
    IN IF stops = {} THEN message
       ELSE SubSeq(message, 1, (CHOOSE i \in stops : \A j \in stops : i <= j) - 1)

\* C6 as stated: for every ChangeSet with a path containing fix in any set, the
\* type of the fallback message is fix, for every LineDelta.
C6_FixPathAnyDelta ==
    \A i \in Returned("generate_fallback_message") :
        HasFixPath => TypeOf(ret[i].val) = <<"f","i","x">> (* fix *)

\* C6 amended: for every ChangeSet with a path containing fix in any set, the
\* type of the fallback message is fix for every LineDelta reporting at least one
\* file; when it reports zero files the message is chore: update repository.
C6_FixPathNonZeroDelta ==
    \A i \in Returned("generate_fallback_message") :
        HasFixPath =>
            /\ stats.files >= 1 => TypeOf(ret[i].val) = <<"f","i","x">> (* fix *)
            /\ stats.files = 0 => ret[i].val = ChoreMessage

C6_Witness ==
    /\ Returned("generate_fallback_message") # {}
    /\ status.staged = <<<<"r","e","a","d","m","e",".","m","d">> (* readme.md *), <<"s","r","c","/","b","u","g","f","i","x",".","p","y">> (* src/bugfix.py *)>>
    /\ stats.files = 2
    /\ ret[1].val = <<"f","i","x",":"," ","a","d","d"," ","2"," ","f","i","l","e","s">> (* fix: add 2 files *)

\* the message is enclosed in double quotes, as RemoveQuotes tests it
Enclosed(message) == StartsWith(message, <<"\"">>) /\ EndsWith(message, <<"\"">>)

\* the message begins with one of the labels, whatever the case
Labelled(message) == \E k \in 1..Len(prefixes) : StartsWith(ToLower(message), prefixes[k])

\* the two results of _clean_message applied to a candidate and then to its result
CleanedTwice == pc = "returned" /\ Len(ret) = 2 /\ ret[2].fn = "_clean_message"

\* C7 as stated: _clean_message(_clean_message(s)) = _clean_message(s) for every
\* raw candidate s.
C7_Idempotent == CleanedTwice => ret[2].val = ret[1].val

\* C7 amended: _clean_message(_clean_message(s)) = _clean_message(s) exactly for
\* the candidates s whose normalized form is neither enclosed in double quotes nor
\* begins with one of the labels; a candidate cut to the maximum length is not cut
\* again.
C7_IdempotentOnceBare ==
    CleanedTwice =>
        /\ (ret[2].val = ret[1].val) <=> (~Enclosed(ret[1].val) /\ ~Labelled(ret[1].val))
        /\ Len(ret[1].val) <= max_commit_length

C7_Witness ==
    /\ CleanedTwice
    /\ Len(commit_message) > max_commit_length
    /\ Len(ret[1].val) = max_commit_length
    /\ ret[2].val = ret[1].val

\* what is left of the candidate once the quotes and the labels are removed
Remaining == RemovePrefixes(RemoveQuotes(commit_message), 1)

Ellipsis == <<".",".",".">> (* ... *)

\* C8 as stated: every raw candidate longer than 72 characters is normalized to a
\* message of exactly 72 characters that ends in "...".
C8_LongRawCandidate ==
    \A i \in Returned("_clean_message") :
        (i = 1 /\ Len(commit_message) > max_commit_length) =>
            Len(ret[i].val) = max_commit_length /\ EndsWith(ret[i].val, Ellipsis)

\* C8 amended: every raw candidate whose length after the removal of its
\* enclosing quotes and leading labels exceeds 72 is normalized to a message of
\* exactly 72 characters: the first 69 of what remained, then "...".
C8_LongRemainingCandidate ==
    \A i \in Returned("_clean_message") :
        (i = 1 /\ Len(Remaining) > max_commit_length) =>
            /\ Len(ret[i].val) = max_commit_length
            /\ EndsWith(ret[i].val, Ellipsis)
            /\ SubSeq(ret[i].val, 1, max_commit_length - 3)
                   = SubSeq(Remaining, 1, max_commit_length - 3)

C8_Witness ==
    /\ pc = "cleaned"
    /\ Enclosed(commit_message)
    /\ Len(Remaining) > max_commit_length
    /\ Len(ret[1].val) = max_commit_length
    /\ EndsWith(ret[1].val, Ellipsis)

\* C9: every candidate whose normalized form has fewer than 10 characters is
\* rejected by _validate_message, with conventional-commit enforcement on or off
\* and whatever it contains, and generate_enhanced_message then returns None.
C9_ShortRejected ==
    \A i \in Returned("_validate_message") :
        Len(ret[1].val) < 10 =>
            /\ ret[i].val = FALSE
            /\ \A j \in Returned("generate_enhanced_message") : ret[j].val = None

C9_Witness ==
    /\ Returned("_validate_message") # {}
    /\ ~use_conventional_commits
    /\ ret[1].val = <<"f","i","x",":"," ","a">> (* fix: a *)
    /\ ret[2].val = FALSE
    /\ ret[3].val = None

\* the message has the form type(scope)?: description for one of the twelve types
ConventionalFormat(message) ==
    \E t \in conventional_types :
        /\ StartsWith(message, t)
        /\ LET rest == SubSeq(message, Len(t) + 1, Len(message))
               closing == {i \in 3..Len(rest) : rest[i] = ")"}
               after == SubSeq(rest, (CHOOSE i \in closing : \A j \in closing : i <= j) + 1,
                               Len(rest))
           IN \/ StartsWith(rest, <<":"," ">>) /\ Len(rest) > 2
              \/ /\ StartsWith(rest, <<"(">>)
                 /\ closing # {}
                 /\ StartsWith(after, <<":"," ">>)
                 /\ Len(after) > 2

\* C10: with conventional-commit enforcement on, every message the validator
\* accepts has the form type(scope)?: description with one of the twelve types
\* as its leading token.
C10_AcceptedIsConventional ==
    \A i \in Returned("_validate_message") :
        (use_conventional_commits /\ ret[i].val = TRUE) => ConventionalFormat(ret[1].val)

\* the status query n of a direct call ended with a non-zero exit status or
\* printed what does not decode
QueryFailed(n) == cmds[n].result.returncode # 0 \/ ~cmds[n].result.decodable

\* the paths the status query n printed, one per line
PathsPrinted(n) ==
    CHOOSE ls \in UNION {[1..m -> {GitPaths[p] : p \in DOMAIN GitPaths}] : m \in 0..MaxTouched} :
        Join(ls, <<"\n">>) = cmds[n].result.stdout

\* C13: for every subset of the status queries that fails, get_repo_status
\* returns a ChangeSet in which the slot of each failed query is empty and the
\* slot of each query that succeeded holds the paths that query printed.
C13_FailedQueryEmptiesOwnSlot ==
    \A i \in Returned("get_repo_status") :
        /\ DOMAIN ret[i].val = {"untracked", "modified", "staged", "deleted", "renamed"}
        /\ \A n \in 1..4 :
              ret[i].val[StatusKeys[n]] = IF QueryFailed(n) THEN <<>> ELSE PathsPrinted(n)

C13_Witness ==
    /\ Returned("get_repo_status") # {}
    /\ QueryFailed(1) /\ cmds[1].result.stdout # <<>>
    /\ ~QueryFailed(2) /\ Len(ret[1].val.modified) = 1
    /\ QueryFailed(3)
    /\ ~QueryFailed(4)

\* the numstat lines a direct call of get_file_changes counts: the output of the
\* unstaged query, or of the cached query when the unstaged one gave nothing
NumstatCounted ==
    LET unstaged == run_command(cmds[1].result, TRUE)
        cached == run_command(cmds[2].result, TRUE)
        text == IF Falsy(unstaged) THEN cached ELSE unstaged
    IN IF Falsy(text) THEN <<>> ELSE Split(text, "\n")

\* the line has two leading fields that are each - or an integer
ParsesAsTwoIntegers(line) ==
    LET parts == Split(line, "\t")
    IN Len(parts) >= 2 /\ ~FieldRaises(parts[1]) /\ ~FieldRaises(parts[2])

\* the LineDelta with every line that parses counted whole and every other line
\* skipped entirely
RECURSIVE WholeLinesOnly(_)
WholeLinesOnly(lines) ==
    IF Len(lines) = 0 THEN ZeroStats
    ELSE LET rest == WholeLinesOnly(Tail(lines))
             parts == Split(lines[1], "\t")
         IN IF ParsesAsTwoIntegers(lines[1])
            THEN [additions |-> rest.additions + FieldVal(parts[1]),
                  deletions |-> rest.deletions + FieldVal(parts[2]),
                  files |-> rest.files + 1]
            ELSE rest

\* C17: get_file_changes counts a - field as zero and skips entirely every
\* numstat line that does not parse as two integers: such a line changes none
\* of additions, deletions and files, and the remaining lines are still counted.
C17_UnparsedLineSkippedEntirely ==
    \A i \in Returned("get_file_changes") :
        ret[i].val = WholeLinesOnly(NumstatCounted)

\* some path of the ChangeSet contains word as written
SomePathContains(word) == \E f \in Files(status) : Contains(f, word)

\* some path of the ChangeSet contains word in whatever case
SomePathContainsAnyCase(word) == \E f \in Files(status) : Contains(ToLower(f), word)

SomePathIsMarkdown == \E f \in Files(status) : EndsWith(f, <<".","m","d">> (* .md *))

\* C14 as stated: the type of the fallback message is fix if a path contains
\* fix, otherwise docs if a path has the extension .md, otherwise test if a path
\* contains test, otherwise feat (read for a LineDelta that reports files).
C14_FirstMatchAsWritten ==
    \A i \in Returned("generate_fallback_message") :
        stats.files >= 1 =>
            TypeOf(ret[i].val) =
                IF SomePathContains(<<"f","i","x">> (* fix *)) THEN <<"f","i","x">> (* fix *)
                ELSE IF SomePathIsMarkdown THEN <<"d","o","c","s">> (* docs *)
                ELSE IF SomePathContains(<<"t","e","s","t">> (* test *)) THEN <<"t","e","s","t">> (* test *)
                ELSE <<"f","e","a","t">> (* feat *)

\* C14 amended: when the LineDelta reports at least one file, the type of the
\* fallback message is fix if a path contains fix in whatever case, otherwise
\* docs if a path ends with .md, otherwise test if a path contains test in
\* whatever case, otherwise feat; a ChangeSet with a .md path and a path
\* containing test and none containing fix yields docs.
C14_FirstMatchIgnoringCase ==
    \A i \in Returned("generate_fallback_message") :
        stats.files >= 1 =>
            /\ TypeOf(ret[i].val) =
                  IF SomePathContainsAnyCase(<<"f","i","x">> (* fix *)) THEN <<"f","i","x">> (* fix *)
                  ELSE IF SomePathIsMarkdown THEN <<"d","o","c","s">> (* docs *)
                  ELSE IF SomePathContainsAnyCase(<<"t","e","s","t">> (* test *)) THEN <<"t","e","s","t">> (* test *)
                  ELSE <<"f","e","a","t">> (* feat *)
            /\ (SomePathIsMarkdown /\ SomePathContainsAnyCase(<<"t","e","s","t">> (* test *))
                  /\ ~SomePathContainsAnyCase(<<"f","i","x">> (* fix *))) => TypeOf(ret[i].val) = <<"d","o","c","s">> (* docs *)

C14_Witness ==
    /\ Returned("generate_fallback_message") # {}
    /\ stats.files >= 1
    /\ <<"r","e","a","d","m","e",".","m","d">> (* readme.md *) \in Files(status)
    /\ <<"t","e","s","t","s","/","t","e","s","t","_","a","p","i",".","j","s">> (* tests/test_api.js *) \in Files(status)
    /\ TypeOf(ret[1].val) = <<"d","o","c","s">> (* docs *)

\* the scope of a message: what stands between its type token and its first ":"
ScopeOf(message) ==
    LET colons == {i \in 1..Len(message) : message[i] = ":"}
    IN IF colons = {} THEN <<>>
       ELSE SubSeq(message, Len(TypeOf(message)) + 1,
                   (CHOOSE i \in colons : \A j \in colons : i <= j) - 1)

\* the number of files the ChangeSet lists across its sets
Touched == Len(AllFiles(status))

\* C15 as stated: the scope of the fallback message is populated only when the
\* ChangeSet lists exactly one file, and is then that file's name without
\* extension in parentheses; for a ChangeSet listing zero or more than one file
\* it is empty, whatever the LineDelta's file count.
C15_ScopeByTouchedFiles ==
    \A i \in Returned("generate_fallback_message") :
        /\ ScopeOf(ret[i].val) # <<>> =>
              /\ Touched = 1
              /\ ScopeOf(ret[i].val) = <<"(">> \o PathStem(AllFiles(status)[1]) \o <<")">>
        /\ Touched # 1 => ScopeOf(ret[i].val) = <<>>

\* C15 amended: the scope of the fallback message is populated exactly when the
\* LineDelta reports one file and the ChangeSet lists at least one; it is then
\* the name without extension of the first file listed (untracked, modified,
\* staged, deleted in that order) in parentheses, however many are listed.
C15_ScopeByLineDelta ==
    \A i \in Returned("generate_fallback_message") :
        IF stats.files = 1 /\ Touched >= 1
        THEN ScopeOf(ret[i].val) = <<"(">> \o PathStem(AllFiles(status)[1]) \o <<")">>
        ELSE ScopeOf(ret[i].val) = <<>>

C15_Witness ==
    /\ Returned("generate_fallback_message") # {}
    /\ stats.files = 1
    /\ status.untracked = << <<"s","r","c","/","a","p","p",".","p","y">> (* src/app.py *) >>
    /\ status.modified = << <<"r","e","a","d","m","e",".","m","d">> (* readme.md *) >>
    /\ ret[1].val = <<"d","o","c","s","(","a","p","p",")",":"," ","u","p","d","a","t","e"," ","1"," ","f","i","l","e">> (* docs(app): update 1 file *)

\* what follows the first ": " of a message
DescriptionOf(message) ==
    LET colons == {i \in 1..Len(message) : message[i] = ":"}
    IN IF colons = {} THEN <<>>
       ELSE SubSeq(message, (CHOOSE i \in colons : \A j \in colons : i <= j) + 2, Len(message))

\* C16: when the LineDelta reports files, the fallback message is the type, the
\* scope, ": ", the action, the file count and the noun: the action is update
\* exactly when the modified set is non-empty and add otherwise, whatever is
\* staged or deleted, and the noun is file for a count of 1 and files above 1.
C16_ActionCountNoun ==
    \A i \in Returned("generate_fallback_message") :
        stats.files >= 1 =>
            /\ TypeOf(ret[i].val) \in {<<"f","i","x">> (* fix *), <<"d","o","c","s">> (* docs *), <<"t","e","s","t">> (* test *), <<"f","e","a","t">> (* feat *)}
            /\ ret[i].val = TypeOf(ret[i].val) \o ScopeOf(ret[i].val) \o <<":"," ">>
                               \o DescriptionOf(ret[i].val)
            /\ DescriptionOf(ret[i].val) =
                  (IF status.modified # <<>> THEN <<"u","p","d","a","t","e">> (* update *) ELSE <<"a","d","d">> (* add *))
                  \o <<" ">> \o ToStr(stats.files)
                  \o (IF stats.files = 1 THEN <<" ","f","i","l","e">> (*  file *) ELSE <<" ","f","i","l","e","s">> (*  files *))

C16_Witness ==
    /\ Returned("generate_fallback_message") # {}
    /\ stats.files = 2
    /\ status.modified = <<>>
    /\ status.staged # <<>>
    /\ status.deleted # <<>>
    /\ DescriptionOf(ret[1].val) = <<"a","d","d"," ","2"," ","f","i","l","e","s">> (* add 2 files *)

CategoryOrder == << <<"t","e","s","t"," ","f","i","l","e","s">> (* test files *), <<"d","o","c","u","m","e","n","t","a","t","i","o","n">> (* documentation *), <<"c","o","n","f","i","g","u","r","a","t","i","o","n">> (* configuration *), <<"s","o","u","r","c","e"," ","c","o","d","e">> (* source code *) >>

\* the path f matches the rule of the label CategoryOrder[n]
PathMatches(f, n) ==
    CASE n = 1 -> Contains(ToLower(f), <<"t","e","s","t">> (* test *))
      [] n = 2 -> \E x \in {<<".","m","d">> (* .md *), <<".","r","s","t">> (* .rst *), <<".","t","x","t">> (* .txt *)} : EndsWith(f, x)
      [] n = 3 -> \E x \in {<<".","j","s","o","n">> (* .json *), <<".","y","m","l">> (* .yml *), <<".","y","a","m","l">> (* .yaml *), <<".","t","o","m","l">> (* .toml *), <<".","i","n","i">> (* .ini *)} : EndsWith(f, x)
      [] n = 4 -> \E x \in {<<".","p","y">> (* .py *), <<".","j","s">> (* .js *), <<".","t","s">> (* .ts *), <<".","j","a","v","a">> (* .java *), <<".","c","p","p">> (* .cpp *)} : EndsWith(f, x)

\* the labels some path of the ChangeSet matches, in the fixed order
MatchedLabels ==
    LET hit == {n \in 1..4 : \E f \in Files(status) : PathMatches(f, n)}
        nth[k \in 0..4] ==
            IF k = 0 THEN <<>>
            ELSE IF k \in hit THEN Append(nth[k - 1], CategoryOrder[k]) ELSE nth[k - 1]
    IN nth[4]

Reversed(s) == [k \in 1..Len(s) |-> s[Len(s) + 1 - k]]

\* the ChangeSet with its sets exchanged and the paths of each set reversed
Rearranged(st) ==
    [untracked |-> Reversed(st.renamed), modified |-> Reversed(st.deleted),
     staged |-> Reversed(st.staged), deleted |-> Reversed(st.modified),
     renamed |-> Reversed(st.untracked)]

\* C18: the category is the matched labels joined with ", " in the fixed order
\* test files, documentation, configuration, source code, the same for the
\* ChangeSet with its sets and paths in another order, and is exactly general
\* changes when no rule matches, an empty ChangeSet included.
C18_LabelsInFixedOrder ==
    \A i \in Returned("analyze_changes") :
        /\ ret[i].val = IF MatchedLabels = <<>> THEN <<"g","e","n","e","r","a","l"," ","c","h","a","n","g","e","s">> (* general changes *)
                        ELSE Join(MatchedLabels, <<","," ">>)
        /\ ret[i].val = analyze_changes(Rearranged(status), stats)
        /\ Files(status) = {} => ret[i].val = <<"g","e","n","e","r","a","l"," ","c","h","a","n","g","e","s">> (* general changes *)

\* one path, tests/test_api.js, gives two labels
C18_Witness ==
    /\ Returned("analyze_changes") # {}
    /\ Files(status) = {<<"t","e","s","t","s","/","t","e","s","t","_","a","p","i",".","j","s">> (* tests/test_api.js *)}
    /\ ret[1].val = <<"t","e","s","t"," ","f","i","l","e","s",","," ","s","o","u","r","c","e"," ","c","o","d","e">> (* test files, source code *)

\* C11: in every run that reaches the commit, the message handed to git commit
\* has passed the validator after synthesis, whichever strategy produced it
\* (generative, fallback or --message): the validator accepts it and it has at
\* most max_commit_length characters.
C11_CommittedMessageValidated ==
    \A i \in Commits :
        /\ _validate_message(cmds[i].message, use_conventional_commits)
        /\ Len(cmds[i].message) <= max_commit_length

Pushes == {i \in DOMAIN cmds : cmds[i].cmd = "git push"}

Said(line) == \E k \in DOMAIN printed : printed[k] = line

\* C12: a run whose git commit or git push ends with a non-zero exit status
\* surfaces the failure: it never reports the commit as created or the push as
\* successful, and it issues no push after a failed commit.
C12_FailureSurfaced ==
    /\ \A i \in Commits :
          ~cmds[i].ok => /\ ~Said("Commit created")
                         /\ \A j \in Pushes : j < i
    /\ \A j \in Pushes : ~cmds[j].ok => ~Said("Successfully pushed to GitHub")

\* the attempts of the generative strategy the run has made so far
Attempts == {k \in DOMAIN printed : printed[k] = "Generating AI commit message"}

Issued(names) == {i \in DOMAIN cmds : cmds[i].cmd \in names}

\* the commands that change the work tree's repository or the remote
Publishing == {"git add .", "git commit", "git branch -M", "git remote add origin", "git push"}

\* C20: a dry run issues no state-changing command (no git init, git add, git
\* commit, git branch -M, git remote add, git push) and does not try the
\* collaborator; a run whose ChangeSet has every set empty issues none of git
\* add, git commit, git branch -M, git remote add, git push and does not try the
\* collaborator; in every run the stage comes before the commit and the commit
\* before the push, and the message of the commit is the one chosen before it
\* and is no longer changed.
C20_ReadOnlyRunsAndOrder ==
    /\ args.dry_run => /\ Issued(Publishing \cup {"git init"}) = {}
                       /\ llm = "not called" /\ Attempts = {}
    /\ Files(status) = {} => /\ Issued(Publishing) = {}
                             /\ llm = "not called" /\ Attempts = {}
    /\ \A c \in Commits : /\ Issued({"git add ."}) # {}
                          /\ \A a \in Issued({"git add ."}) : a < c
                          /\ cmds[c].message = commit_message
                          /\ Said("Using fallback message") \/ Said("Commit message")
    /\ \A p \in Pushes : /\ Commits # {}
                         /\ \A c \in Commits : c < p
    /\ Cardinality(Commits) <= 1 /\ Cardinality(Pushes) <= 1

C20_Witness ==
    /\ pc = "done"
    /\ ~args.dry_run
    /\ Files(status) # {}
    /\ Issued({"git add ."}) # {} /\ Commits # {} /\ Pushes # {}

=============================================================================
